---- MODULE Spec2Model ----
(***************************************************************************)
(* State-machine model of the analytical core of z80dismblr:               *)
(*   - class Regs   (src/src/disassembler/regs.ts): register usage state,  *)
(*     bank exchanges, clone and merge;                                    *)
(*   - class Memory (src/src/memory.ts): the 64K byte store, its attribute *)
(*     array, and operand resolution in getOpcodeAt.                       *)
(***************************************************************************)
EXTENDS Integers, Sequences, FiniteSets, TLC

(***************************************************************************)
(* enum REGISTER (regs.ts 5-12)                                            *)
(***************************************************************************)
A == 0
F == 1
B == 2
C == 3
D == 4
E == 5
H == 6
L == 7
A2 == 8
F2 == 9
B2 == 10
C2 == 11
D2 == 12
E2 == 13
H2 == 14
L2 == 15
IXL == 16
IXH == 17
IYL == 18
IYH == 19
REGS_MAX == 20

Registers == 0 .. (REGS_MAX - 1)

\* The value use() stores in a slot (regs.ts 67).
USED == -1

(***************************************************************************)
(* memory.ts: MAX_MEM_SIZE (9) and enum MemAttribute (13-24)               *)
(***************************************************************************)
MAX_MEM_SIZE == 65536
UNUSED == 0
ASSIGNED == 1
CODE == 2
CODE_FIRST == 4
DATA == 8

\* What reading an array element that was never written yields in JavaScript
\* (undefined), as a value no attribute can have.
Undefined == -1

(***************************************************************************)
(* Bounds and input sets of the model.                                     *)
(***************************************************************************)
\* The program's variables that hold a Regs instance.
Objs == {"a", "b"}
\* Registers the caller passes to use() / reads.
RegInputs == {B, IXL}
\* Registers read and written by a caller that makes no other call.
AccessInputs == {B, C, IXL}
\* Addresses and values the caller appends to usedAddresses and stack.
PushInputs == {4096}
\* Longest usedAddresses / stack list explored.
MaxLen == 1
\* Addresses the caller passes to the Memory.
AddrInputs == {0, 4096, 65534, 65535}
\* Origins and bytes of the blocks given to setMemory.
OriginInputs == {4096, 65535}
ByteInputs == {24, 254}
\* Longest block given to setMemory.
MaxBytes == 2
\* Start addresses, largest length and attributes given to addAttributeAt.
TagInputs == {4096, 65535}
MaxTagLen == 2
AttrInputs == {CODE, DATA}
\* Images the decoding is applied to: an opcode byte, its operand byte and a
\* third byte, loaded at one of the origins.
ImageOrigins == {0, 4096, 65534, 65535}
OpcodeInputs == {0, 16, 24, 62, 195, 211}
OperandInputs == {0, 127, 128, 254}
ThirdInputs == {0, 18}
\* Number of calls made in one run of a specification that limits them.
MaxCalls == 4
\* Number of calls made on the Memory in one run that loads and tags it.
MemCalls == 3
\* budget of a specification that does not limit the number of calls, and of
\* one that allows n calls.
Unlimited == [limited |-> FALSE, left |-> 0]
AtMost(n) == [limited |-> TRUE, left |-> n]

VARIABLES
    obj,            \* obj[x]: the four containers the instance held by x refers to
    regs,           \* heap of register arrays         (Regs.regs, regs.ts 22)
    usedAddresses,  \* heap of address lists           (Regs.usedAddresses, regs.ts 32)
    inputRegs,      \* heap of register sets           (Regs.inputRegs, regs.ts 35)
    stack,          \* heap of stack lists             (Regs.stack, regs.ts 38)
    path,           \* history: kind of calls made on x since its construction
    firstRead,      \* history: registers of x whose first access was a read
    accessed,       \* history: registers of x read or written so far
    last,           \* the call that produced the current state
    budget,         \* the calls the run may still make
    clonedFrom,     \* history: "new", or the variable x was cloned from
    tags,           \* reference: one Fresh | Used tag per register of x, in the
                    \* runs that keep the reference side by side
    memory,         \* Memory.memory, as the map of the bytes written so far
    memoryAttr      \* Memory.memoryAttr, as the map of the entries written so far

regsVars == <<obj, regs, usedAddresses, inputRegs, stack, path, firstRead, accessed, clonedFrom,
              tags>>
memVars == <<memory, memoryAttr>>
vars == <<obj, regs, usedAddresses, inputRegs, stack, path, firstRead, accessed,
          clonedFrom, tags, last, budget, memory, memoryAttr>>

\* Every action records the call it models and counts it.
Called(op, x, y) ==
    /\ budget.limited => budget.left > 0
    /\ budget' = IF budget.limited THEN [budget EXCEPT !.left = @ - 1] ELSE budget
    /\ last' = [op |-> op, x |-> x, y |-> y]

(***************************************************************************)
(* class Regs                                                              *)
(***************************************************************************)

\* Field initialisers: every instance gets containers of its own.
ownContainers(x) == [regs |-> x, usedAddresses |-> x, inputRegs |-> x, stack |-> x]

\* constructor: every register is assigned to itself (unused).
constructor == [r \in Registers |-> r]

\* isUsed with the comparison inverted.
isUsedInverted(rg, r) == rg[r] = r

\* isUsed(r) on the register array rg.
isUsed(rg, r) == rg[r] # r

\* use(r) on the register array rg.
use(rg, r) == [rg EXCEPT ![r] = USED]

\* exxAF exchanging A with A' alone.
exxAFWithoutFlags(rg) ==
    LET a == rg[A]
        rg1 == [rg EXCEPT ![A] = rg[A2]]
    IN  [rg1 EXCEPT ![A2] = a]

\* exxAF() on the register array rg, assignment by assignment.
exxAF(rg) ==
    LET a == rg[A]
        f == rg[F]
        rg1 == [rg EXCEPT ![A] = rg[A2]]
        rg2 == [rg1 EXCEPT ![F] = rg1[F2]]
        rg3 == [rg2 EXCEPT ![A2] = a]
    IN  [rg3 EXCEPT ![F2] = f]

\* exx's iteration without the write of tmp to the alternate slot.
exxStepNoWriteBack(rg, r) == [rg EXCEPT ![r] = rg[r + (B2 - B)]]

\* One iteration of the loop of exx(): swap slot r with slot r+diff.
exxStep(rg, r) ==
    LET diff == B2 - B
        tmp == rg[r]
        rg1 == [rg EXCEPT ![r] = rg[r + diff]]
    IN  [rg1 EXCEPT ![r + diff] = tmp]

RECURSIVE exxLoop(_, _)
exxLoop(rg, r) == IF r <= L THEN exxLoop(exxStep(rg, r), r + 1) ELSE rg

\* exx() on the register array rg.
exx(rg) == exxLoop(rg, B)

\* usedRegs() on the register array rg.
RECURSIVE usedRegsLoop(_, _, _)
usedRegsLoop(rg, r, acc) ==
    IF r < REGS_MAX
    THEN usedRegsLoop(rg, r + 1, IF rg[r] # r THEN acc \cup {r} ELSE acc)
    ELSE acc

usedRegs(rg) == usedRegsLoop(rg, 0, {})

\* merge's iteration copying the other slot without testing it.
mergeStepUntested(h, t, o, r) == [h EXCEPT ![t][r] = h[o][r]]

\* One iteration of the loop of merge(): heap h, this array t, other array o.
mergeStep(h, t, o, r) ==
    IF h[o][r] # r THEN [h EXCEPT ![t][r] = h[o][r]] ELSE h

RECURSIVE mergeLoop(_, _, _, _)
mergeLoop(h, t, o, r) ==
    IF r < REGS_MAX THEN mergeLoop(mergeStep(h, t, o, r), t, o, r + 1) ELSE h

\* merge copying only the slots of the other instance that use() marked.
RECURSIVE mergeMarkedLoop(_, _, _, _)
mergeMarkedLoop(h, t, o, r) ==
    IF r < REGS_MAX
    THEN mergeMarkedLoop(IF h[o][r] = USED THEN [h EXCEPT ![t][r] = USED] ELSE h, t, o, r + 1)
    ELSE h

mergeMarkedOnly(h, t, o) == mergeMarkedLoop(h, t, o, 0)

\* merge(otherRegs) on the heap of register arrays.
merge(h, t, o) == mergeLoop(h, t, o, 0)

\* The element-wise copies made by clone().
RECURSIVE copyRegs(_, _, _)
copyRegs(from, to, r) ==
    IF r < REGS_MAX THEN copyRegs(from, [to EXCEPT ![r] = from[r]], r + 1) ELSE to

RECURSIVE copyList(_, _, _)
copyList(from, to, i) ==
    IF i <= Len(from) THEN copyList(from, Append(to, from[i]), i + 1) ELSE to

\* Values of the instance held by x.
regsOf(x) == regs[obj[x].regs]
usedAddressesOf(x) == usedAddresses[obj[x].usedAddresses]
inputRegsOf(x) == inputRegs[obj[x].inputRegs]
stackOf(x) == stack[obj[x].stack]

\* x = new Regs()
\* The reference: an explicit tag per register instead of the sentinel values.
freshTags == [r \in Registers |-> "Fresh"]
tagUse(t, r) == [t EXCEPT ![r] = "Used"]
tagExxAF(t) ==
    [r \in Registers |-> IF r \in {A, F} THEN t[r + (A2 - A)]
                         ELSE IF r \in {A2, F2} THEN t[r - (A2 - A)]
                         ELSE t[r]]
tagExx(t) ==
    [r \in Registers |-> IF r \in B .. L THEN t[r + (B2 - B)]
                         ELSE IF r \in B2 .. L2 THEN t[r - (B2 - B)]
                         ELSE t[r]]
tagMerge(t, other) == [r \in Registers |-> IF other[r] = "Used" THEN "Used" ELSE t[r]]
tagClone(t) == t
usedTags(t) == {r \in Registers : t[r] = "Used"}

\* A run without the reference, and the step of the reference on x otherwise.
NoReference == << >>
Reference(x, t) == IF DOMAIN tags = {} THEN tags ELSE [tags EXCEPT ![x] = t]

NewRegs(x) ==
    /\ obj' = [obj EXCEPT ![x] = ownContainers(x)]
    /\ regs' = [regs EXCEPT ![x] = constructor]
    /\ usedAddresses' = [usedAddresses EXCEPT ![x] = <<>>]
    /\ inputRegs' = [inputRegs EXCEPT ![x] = {}]
    /\ stack' = [stack EXCEPT ![x] = <<>>]
    /\ path' = [path EXCEPT ![x] = "new"]
    /\ firstRead' = [firstRead EXCEPT ![x] = {}]
    /\ accessed' = [accessed EXCEPT ![x] = {}]
    /\ clonedFrom' = [clonedFrom EXCEPT ![x] = "new"]
    /\ tags' = Reference(x, freshTags)
    /\ Called("new", x, x)
    /\ UNCHANGED memVars

\* History of the calls made on an instance: "new", then "exchange" while only
\* exxAF/exx were called, "access" while only register reads and writes were
\* made, "mixed" otherwise.
pathAfter(p, kind) == IF p = "new" \/ p = kind THEN kind ELSE "mixed"

\* firstRead and accessed are kept while only reads and writes were made on x.
tracked(x) == path[x] \in {"new", "access"}

\* x.use(r): the caller writes register r.
Use(x, r) ==
    /\ regs' = [regs EXCEPT ![obj[x].regs] = use(@, r)]
    /\ path' = [path EXCEPT ![x] = pathAfter(@, "access")]
    /\ accessed' = [accessed EXCEPT ![x] = IF tracked(x) THEN @ \cup {r} ELSE {}]
    /\ tags' = Reference(x, tagUse(tags[x], r))
    /\ Called("use", x, x)
    /\ UNCHANGED <<obj, usedAddresses, inputRegs, stack, firstRead, clonedFrom, memVars>>

\* The caller reads register r: check isUsed(r), record an input register,
\* then use(r).
ReadReg(x, r) ==
    /\ inputRegs' = [inputRegs EXCEPT ![obj[x].inputRegs] =
                        IF isUsed(regsOf(x), r) THEN @ ELSE @ \cup {r}]
    /\ regs' = [regs EXCEPT ![obj[x].regs] = use(@, r)]
    /\ path' = [path EXCEPT ![x] = pathAfter(@, "access")]
    /\ firstRead' = [firstRead EXCEPT ![x] =
                        IF tracked(x) /\ r \notin accessed[x] THEN @ \cup {r} ELSE @]
    /\ accessed' = [accessed EXCEPT ![x] = IF tracked(x) THEN @ \cup {r} ELSE {}]
    /\ tags' = Reference(x, tagUse(tags[x], r))
    /\ Called("read", x, x)
    /\ UNCHANGED <<obj, usedAddresses, stack, clonedFrom, memVars>>

\* x.exxAF()
ExxAF(x) ==
    /\ regs' = [regs EXCEPT ![obj[x].regs] = exxAF(@)]
    /\ path' = [path EXCEPT ![x] = pathAfter(@, "exchange")]
    /\ firstRead' = [firstRead EXCEPT ![x] = {}]
    /\ accessed' = [accessed EXCEPT ![x] = {}]
    /\ tags' = Reference(x, tagExxAF(tags[x]))
    /\ Called("exxAF", x, x)
    /\ UNCHANGED <<obj, usedAddresses, inputRegs, stack, clonedFrom, memVars>>

\* x.exx()
Exx(x) ==
    /\ regs' = [regs EXCEPT ![obj[x].regs] = exx(@)]
    /\ path' = [path EXCEPT ![x] = pathAfter(@, "exchange")]
    /\ firstRead' = [firstRead EXCEPT ![x] = {}]
    /\ accessed' = [accessed EXCEPT ![x] = {}]
    /\ tags' = Reference(x, tagExx(tags[x]))
    /\ Called("exx", x, x)
    /\ UNCHANGED <<obj, usedAddresses, inputRegs, stack, clonedFrom, memVars>>

\* merge() also adding the input registers of the other instance to its own.
MergeWithInputs(x, y) ==
    /\ regs' = merge(regs, obj[x].regs, obj[y].regs)
    /\ inputRegs' = [inputRegs EXCEPT ![obj[x].inputRegs] = @ \cup inputRegsOf(y)]
    /\ path' = [path EXCEPT ![x] = "mixed"]
    /\ firstRead' = [firstRead EXCEPT ![x] = {}]
    /\ accessed' = [accessed EXCEPT ![x] = {}]
    /\ tags' = Reference(x, tagMerge(tags[x], tags[y]))
    /\ Called("merge", x, y)
    /\ UNCHANGED <<obj, usedAddresses, stack, clonedFrom, memVars>>

\* x.merge(y)
Merge(x, y) ==
    /\ regs' = merge(regs, obj[x].regs, obj[y].regs)
    /\ path' = [path EXCEPT ![x] = "mixed"]
    /\ firstRead' = [firstRead EXCEPT ![x] = {}]
    /\ accessed' = [accessed EXCEPT ![x] = {}]
    /\ tags' = Reference(x, tagMerge(tags[x], tags[y]))
    /\ Called("merge", x, y)
    /\ UNCHANGED <<obj, usedAddresses, inputRegs, stack, clonedFrom, memVars>>

\* clone() handing its own stack array to the new instance instead of copying it.
CloneSharingStack(x, n) ==
    /\ obj' = [obj EXCEPT ![n] = [ownContainers(n) EXCEPT !.stack = obj[x].stack]]
    /\ regs' = [regs EXCEPT ![n] = regsOf(x)]
    /\ usedAddresses' = [usedAddresses EXCEPT ![n] = usedAddressesOf(x)]
    /\ inputRegs' = [inputRegs EXCEPT ![n] = inputRegsOf(x)]
    /\ stack' = stack
    /\ path' = [path EXCEPT ![n] = "mixed"]
    /\ firstRead' = [firstRead EXCEPT ![n] = {}]
    /\ accessed' = [accessed EXCEPT ![n] = {}]
    /\ clonedFrom' = [clonedFrom EXCEPT ![n] = x]
    /\ tags' = Reference(n, tagClone(tags[x]))
    /\ Called("clone", x, n)
    /\ UNCHANGED memVars

\* n = x.clone(): a new instance with containers of its own, filled element by
\* element from the containers of x.
Clone(x, n) ==
    /\ obj' = [obj EXCEPT ![n] = ownContainers(n)]
    /\ regs' = [regs EXCEPT ![n] = copyRegs(regsOf(x), constructor, 0)]
    /\ usedAddresses' = [usedAddresses EXCEPT ![n] = copyList(usedAddressesOf(x), <<>>, 1)]
    /\ inputRegs' = [inputRegs EXCEPT ![n] = {} \cup inputRegsOf(x)]
    /\ stack' = [stack EXCEPT ![n] = copyList(stackOf(x), <<>>, 1)]
    /\ path' = [path EXCEPT ![n] = "mixed"]
    /\ firstRead' = [firstRead EXCEPT ![n] = {}]
    /\ accessed' = [accessed EXCEPT ![n] = {}]
    /\ clonedFrom' = [clonedFrom EXCEPT ![n] = x]
    /\ tags' = Reference(n, tagClone(tags[x]))
    /\ Called("clone", x, n)
    /\ UNCHANGED memVars

\* x.usedAddresses.push(v)
PushUsedAddress(x, v) ==
    /\ Len(usedAddressesOf(x)) < MaxLen
    /\ usedAddresses' = [usedAddresses EXCEPT ![obj[x].usedAddresses] = Append(@, v)]
    /\ Called("pushAddress", x, x)
    /\ UNCHANGED <<obj, regs, inputRegs, stack, path, firstRead, accessed, clonedFrom, tags, memVars>>

\* x.stack.push(v)
PushStack(x, v) ==
    /\ Len(stackOf(x)) < MaxLen
    /\ stack' = [stack EXCEPT ![obj[x].stack] = Append(@, v)]
    /\ Called("pushStack", x, x)
    /\ UNCHANGED <<obj, regs, inputRegs, usedAddresses, path, firstRead, accessed, clonedFrom,
                   tags, memVars>>

(***************************************************************************)
(* class Memory                                                            *)
(***************************************************************************)

\* a | b on attribute masks.
RECURSIVE BitOr(_, _)
BitOr(a, b) ==
    IF a = 0 THEN b
    ELSE IF b = 0 THEN a
    ELSE (IF a % 2 = 1 \/ b % 2 = 1 THEN 1 ELSE 0) + 2 * BitOr(a \div 2, b \div 2)

\* address & (MAX_MEM_SIZE-1): the low 16 bits of the address.
mask(address) == address % MAX_MEM_SIZE

\* this.memory[i]: the byte written at i, or the 0 the constructor stored.
memoryAt(mem, i) == IF i \in DOMAIN mem THEN mem[i] ELSE 0

\* this.memoryAttr[i]: the entry written at i, or the UNUSED the constructor
\* stored for an index below MAX_MEM_SIZE; there is no entry beyond it until
\* one is written.
memoryAttrAt(attrs, i) ==
    IF i \in DOMAIN attrs THEN attrs[i]
    ELSE IF i \in 0 .. (MAX_MEM_SIZE - 1) THEN UNUSED
    ELSE Undefined

\* array[i] = v
store(arr, i, v) == [k \in DOMAIN arr \cup {i} |-> IF k = i THEN v ELSE arr[k]]

\* The operand of |= : undefined converts to 0.
toInt32(v) == IF v = Undefined THEN 0 ELSE v

\* setMemory(origin, memory): the loop from index i on; m is the pair of arrays.
RECURSIVE setMemoryLoop(_, _, _, _)
setMemoryLoop(m, origin, bytes, i) ==
    IF i < Len(bytes)
    THEN LET addr == mask(origin + i)
         IN  setMemoryLoop(
                [memory |-> store(m.memory, addr, bytes[i + 1]),
                 memoryAttr |-> store(m.memoryAttr, addr,
                                      BitOr(toInt32(memoryAttrAt(m.memoryAttr, addr)), ASSIGNED))],
                origin, bytes, i + 1)
    ELSE m

\* setMemory writing at origin+i without the mask.
RECURSIVE setMemoryNoWrapLoop(_, _, _, _)
setMemoryNoWrapLoop(m, origin, bytes, i) ==
    IF i < Len(bytes)
    THEN LET addr == origin + i
         IN  setMemoryNoWrapLoop(
                [memory |-> store(m.memory, addr, bytes[i + 1]),
                 memoryAttr |-> store(m.memoryAttr, addr,
                                      BitOr(toInt32(memoryAttrAt(m.memoryAttr, addr)), ASSIGNED))],
                origin, bytes, i + 1)
    ELSE m

setMemoryNoWrap(m, origin, bytes) == setMemoryNoWrapLoop(m, origin, bytes, 0)

setMemory(m, origin, bytes) == setMemoryLoop(m, origin, bytes, 0)

\* getValueAt(address)
getValueAt(mem, address) == memoryAt(mem, mask(address))

\* getWordValueAt without the mask on the address of the high byte.
getWordValueAtNoWrap(mem, address) ==
    memoryAt(mem, mask(address)) + 256 * memoryAt(mem, address + 1)

\* getWordValueAt(address)
getWordValueAt(mem, address) ==
    memoryAt(mem, mask(address)) + 256 * memoryAt(mem, mask(address + 1))

\* Opcode.fromValue(val).valueType: the operand kind of the unprefixed Z80
\* instruction with opcode byte val.
valueTypeOf(val) ==
    IF val = 16 THEN "CODE_RELATIVE_LOOP"
    ELSE IF val \in {24, 32, 40, 48, 56} THEN "CODE_RELATIVE_LBL"
    ELSE IF val \in {1, 17, 33, 49} THEN "NUMBER_WORD"
    ELSE IF val \in {34, 42, 50, 58} THEN "DATA_LBL"
    ELSE IF val \in {6, 14, 22, 30, 38, 46, 54, 62,
                     198, 206, 214, 222, 230, 238, 246, 254} THEN "NUMBER_BYTE"
    ELSE IF val \in {194, 195, 202, 210, 218, 226, 234, 242, 250} THEN "CODE_LBL"
    ELSE IF val \in {196, 204, 205, 212, 220, 228, 236, 244, 252} THEN "CODE_SUB"
    ELSE IF val \in {211, 219} THEN "PORT_LBL"
    ELSE "NONE"

\* getOpcodeAt adding address+1, the address of the operand byte, to a relative
\* displacement.
getOpcodeAtFromOperand(mem, address) ==
    LET val == memoryAt(mem, mask(address))
        valueType == valueTypeOf(val)
        v0 == getValueAt(mem, address + 1)
        v1 == IF v0 >= 128 THEN v0 - 256 ELSE v0
    IN  CASE valueType = "NONE" ->
                [valueType |-> valueType]
          [] valueType \in {"CODE_LBL", "CODE_SUB", "DATA_LBL", "NUMBER_WORD"} ->
                [valueType |-> valueType, value |-> getWordValueAt(mem, address + 1)]
          [] valueType \in {"CODE_RELATIVE_LBL", "CODE_RELATIVE_LOOP"} ->
                [valueType |-> valueType, value |-> v1 + (address + 1)]
          [] valueType = "NUMBER_BYTE" ->
                [valueType |-> valueType, value |-> v1]
          [] OTHER ->
                [valueType |-> valueType, value |-> v0]

\* getOpcodeAt converting the byte of a port operand like a signed byte.
getOpcodeAtSignedPort(mem, address) ==
    LET val == memoryAt(mem, mask(address))
        valueType == valueTypeOf(val)
        v0 == getValueAt(mem, address + 1)
        v1 == IF v0 >= 128 THEN v0 - 256 ELSE v0
    IN  CASE valueType = "NONE" ->
                [valueType |-> valueType]
          [] valueType \in {"CODE_LBL", "CODE_SUB", "DATA_LBL", "NUMBER_WORD"} ->
                [valueType |-> valueType, value |-> getWordValueAt(mem, address + 1)]
          [] valueType \in {"CODE_RELATIVE_LBL", "CODE_RELATIVE_LOOP"} ->
                [valueType |-> valueType, value |-> v1 + (address + 2)]
          [] OTHER ->
                [valueType |-> valueType, value |-> v1]

\* getOpcodeAt(address): the operand kind and the value of the returned Opcode.
getOpcodeAt(mem, address) ==
    LET val == memoryAt(mem, mask(address))
        valueType == valueTypeOf(val)
    IN  CASE valueType = "NONE" ->
                [valueType |-> valueType]
          [] valueType \in {"CODE_LBL", "CODE_SUB", "DATA_LBL", "NUMBER_WORD"} ->
                [valueType |-> valueType, value |-> getWordValueAt(mem, address + 1)]
          [] valueType \in {"CODE_RELATIVE_LBL", "CODE_RELATIVE_LOOP", "NUMBER_BYTE"} ->
                LET v0 == getValueAt(mem, address + 1)
                    v1 == IF v0 >= 128 THEN v0 - 256 ELSE v0
                IN  [valueType |-> valueType,
                     value |-> IF valueType = "CODE_RELATIVE_LBL"
                                  \/ valueType = "CODE_RELATIVE_LOOP"
                               THEN v1 + (address + 2)
                               ELSE v1]
          [] valueType = "PORT_LBL" ->
                [valueType |-> valueType, value |-> getValueAt(mem, address + 1)]
          [] OTHER ->
                [valueType |-> valueType, assert |-> FALSE]

\* getAttributeAt(address)
getAttributeAt(attrs, address) == memoryAttrAt(attrs, address)

\* addAttributeAt(address, length, attr): the loop from index i on.
RECURSIVE addAttributeLoop(_, _, _, _, _)
addAttributeLoop(attrs, address, length, attr, i) ==
    IF i < length
    THEN addAttributeLoop(
            store(attrs, address, BitOr(toInt32(memoryAttrAt(attrs, address)), attr)),
            address + 1, length, attr, i + 1)
    ELSE attrs

\* addAttributeAt assigning the attribute instead of OR-ing it.
RECURSIVE addAttributeAssignLoop(_, _, _, _, _)
addAttributeAssignLoop(attrs, address, length, attr, i) ==
    IF i < length
    THEN addAttributeAssignLoop(store(attrs, address, attr), address + 1, length, attr, i + 1)
    ELSE attrs

addAttributeAtAssign(attrs, address, length, attr) ==
    addAttributeAssignLoop(attrs, address, length, attr, 0)

addAttributeAt(attrs, address, length, attr) == addAttributeLoop(attrs, address, length, attr, 0)

\* A call on the Memory: recorded with its arguments and its result.
CalledMemory(op, args, result) ==
    /\ budget.limited => budget.left > 0
    /\ budget' = IF budget.limited THEN [budget EXCEPT !.left = @ - 1] ELSE budget
    /\ last' = [op |-> op, args |-> args, result |-> result]
    /\ UNCHANGED regsVars

SetMemory(origin, bytes) ==
    /\ LET m == setMemory([memory |-> memory, memoryAttr |-> memoryAttr], origin, bytes)
       IN  /\ memory' = m.memory
           /\ memoryAttr' = m.memoryAttr
    /\ CalledMemory("setMemory", <<origin, bytes>>, 0)

AddAttributeAt(address, length, attr) ==
    /\ memoryAttr' = addAttributeAt(memoryAttr, address, length, attr)
    /\ CalledMemory("addAttributeAt", <<address, length, attr>>, 0)
    /\ UNCHANGED memory

GetValueAt(address) ==
    /\ CalledMemory("getValueAt", <<address>>, getValueAt(memory, address))
    /\ UNCHANGED memVars

GetWordValueAt(address) ==
    /\ CalledMemory("getWordValueAt", <<address>>, getWordValueAt(memory, address))
    /\ UNCHANGED memVars

\* getOpcodeAt also tagging the decoded address as the first byte of an opcode.
GetOpcodeAtTagging(address) ==
    /\ CalledMemory("getOpcodeAt", <<address>>, getOpcodeAt(memory, address))
    /\ memoryAttr' = addAttributeAt(memoryAttr, mask(address), 1, CODE_FIRST)
    /\ UNCHANGED memory

GetOpcodeAt(address) ==
    /\ CalledMemory("getOpcodeAt", <<address>>, getOpcodeAt(memory, address))
    /\ UNCHANGED memVars

GetAttributeAt(address) ==
    /\ CalledMemory("getAttributeAt", <<address>>, getAttributeAt(memoryAttr, address))
    /\ UNCHANGED memVars

\* Blocks of 1..n bytes.
Blocks(n) == UNION {[1 .. k -> ByteInputs] : k \in 1 .. n}

InitRegs ==
    /\ obj = [x \in Objs |-> ownContainers(x)]
    /\ regs = [x \in Objs |-> constructor]
    /\ usedAddresses = [x \in Objs |-> <<>>]
    /\ inputRegs = [x \in Objs |-> {}]
    /\ stack = [x \in Objs |-> <<>>]
    /\ path = [x \in Objs |-> "new"]
    /\ firstRead = [x \in Objs |-> {}]
    /\ accessed = [x \in Objs |-> {}]
    /\ clonedFrom = [x \in Objs |-> "new"]

InitMemory ==
    /\ memory = << >>
    /\ memoryAttr = << >>

\* The program after constructing its Regs instances and its Memory.
Init ==
    /\ InitRegs
    /\ InitMemory
    /\ last = [op |-> "init", x |-> "a", y |-> "a"]
    /\ budget = Unlimited
    /\ tags = NoReference

\* As Init, for a run of at most MaxCalls calls.
InitFields ==
    /\ InitRegs
    /\ InitMemory
    /\ last = [op |-> "init", x |-> "a", y |-> "a"]
    /\ budget = AtMost(MaxCalls)
    /\ tags = NoReference

\* The calls that work on the register slots.
Next ==
    \/ \E x \in Objs : NewRegs(x)
    \/ \E x \in Objs, r \in RegInputs : Use(x, r)
    \/ \E x \in Objs : ExxAF(x)
    \/ \E x \in Objs : Exx(x)
    \/ \E x \in Objs, y \in Objs : Merge(x, y)
    \/ \E x \in Objs : \E n \in Objs \ {x} : Clone(x, n)

Spec == Init /\ [][Next]_vars

\* A caller that only reads and writes registers.
NextAccess ==
    \/ \E x \in Objs : NewRegs(x)
    \/ \E x \in Objs, r \in AccessInputs : Use(x, r)
    \/ \E x \in Objs, r \in AccessInputs : ReadReg(x, r)

SpecAccess == Init /\ [][NextAccess]_vars

\* Every call, on every field of the instances.
NextFields ==
    \/ \E x \in Objs : NewRegs(x)
    \/ \E x \in Objs, r \in RegInputs : Use(x, r)
    \/ \E x \in Objs, r \in RegInputs : ReadReg(x, r)
    \/ \E x \in Objs : ExxAF(x)
    \/ \E x \in Objs : Exx(x)
    \/ \E x \in Objs, y \in Objs : Merge(x, y)
    \/ \E x \in Objs : \E n \in Objs \ {x} : Clone(x, n)
    \/ \E x \in Objs, v \in PushInputs : PushUsedAddress(x, v)
    \/ \E x \in Objs, v \in PushInputs : PushStack(x, v)

SpecFields == InitFields /\ [][NextFields]_vars

\* As Init, with the reference run side by side for at most MaxCalls calls.
InitReference ==
    /\ InitRegs
    /\ InitMemory
    /\ last = [op |-> "init", x |-> "a", y |-> "a"]
    /\ budget = AtMost(MaxCalls)
    /\ tags = [x \in Objs |-> freshTags]

SpecReference == InitReference /\ [][Next]_vars

\* As Init, for a run of at most MemCalls calls on the Memory.
InitMemoryRun ==
    /\ InitRegs
    /\ InitMemory
    /\ last = [op |-> "init", args |-> << >>, result |-> 0]
    /\ budget = AtMost(MemCalls)
    /\ tags = NoReference

\* Loading and tagging the Memory.
NextMemory ==
    \/ \E origin \in OriginInputs, bytes \in Blocks(MaxBytes) : SetMemory(origin, bytes)
    \/ \E address \in TagInputs, length \in 0 .. MaxTagLen, attr \in AttrInputs :
            AddAttributeAt(address, length, attr)

SpecMemory == InitMemoryRun /\ [][NextMemory]_vars

\* The Memory after loading one image.
InitImage ==
    /\ InitRegs
    /\ \E origin \in ImageOrigins, op \in OpcodeInputs, operand \in OperandInputs,
          third \in ThirdInputs :
            LET m == setMemory([memory |-> << >>, memoryAttr |-> << >>],
                               origin, <<op, operand, third>>)
            IN  /\ memory = m.memory
                /\ memoryAttr = m.memoryAttr
    /\ last = [op |-> "init", args |-> << >>, result |-> 0]
    /\ budget = Unlimited
    /\ tags = NoReference

\* Reading a loaded Memory.
NextRead ==
    \/ \E address \in AddrInputs : GetValueAt(address)
    \/ \E address \in AddrInputs : GetWordValueAt(address)
    \/ \E address \in AddrInputs : GetOpcodeAt(address)
    \/ \E address \in AddrInputs : GetAttributeAt(address)

SpecRead == InitImage /\ [][NextRead]_vars

(***************************************************************************)
(* Properties                                                              *)
(***************************************************************************)

\* The fields of the instance held by x, before and after a step.
fieldsOf(x) == <<regsOf(x), usedAddressesOf(x), inputRegsOf(x), stackOf(x)>>
fieldsAfter(x) == <<regs'[obj'[x].regs], usedAddresses'[obj'[x].usedAddresses],
                    inputRegs'[obj'[x].inputRegs], stack'[obj'[x].stack]>>

\* The step leaves in x the instance it held (it is not `x = new Regs()` nor
\* `x = other.clone()`).
SameInstance(x) ==
    /\ ~(last'.op = "new" /\ last'.x = x)
    /\ ~(last'.op = "clone" /\ last'.y = x)

\* The set bits of an attribute mask.
bitsOf(v) == {i \in 0 .. 3 : (v \div (2 ^ i)) % 2 = 1}

\* The registers neither exxAF() nor exx() exchanges.
Unbanked == {IXL, IXH, IYL, IYH}

\* C1 (as claimed): over any sequence of use, exxAF, exx and merge calls on one
\* instance, a register for which isUsed returned true is used after every
\* later call: no register goes back from used to fresh.
C1_UsedNeverReverts ==
    [][\A x \in Objs, r \in Registers :
          SameInstance(x) /\ isUsed(regsOf(x), r) => isUsed(regs'[obj'[x].regs], r)]_vars

\* C1 (amended): a used register stays used across every use() and merge()
\* call, and a register outside the exchanged banks (IXL, IXH, IYL, IYH) stays
\* used across every call; only exxAF() and exx() can make a used register of
\* the banks they exchange fresh again.
C1_UsedKeptByUseAndMerge ==
    [][\A x \in Objs, r \in Registers :
          /\ SameInstance(x)
          /\ isUsed(regsOf(x), r)
          /\ (last'.op \in {"use", "merge"} \/ r \in Unbanked)
          => isUsed(regs'[obj'[x].regs], r)]_vars

\* C1 witness: b.merge(a) was called where IXL is used in b alone (it was used
\* in b before the merge and still is) and a has an exchanged slot in B.
C1_Witness ==
    /\ last.op = "merge" /\ last.x = "b" /\ last.y = "a"
    /\ regsOf("b")[IXL] = USED
    /\ regsOf("a")[IXL] = IXL
    /\ regsOf("a")[B] = B2

\* C2: after a.merge(b), a.isUsed(r) holds iff it held before the merge or
\* b.isUsed(r) holds; usedRegs() of a is the union of the two used sets.
C2_MergeIsUnion ==
    [][\A x \in Objs, y \in Objs :
          last'.op = "merge" /\ last'.x = x /\ last'.y = y
          => /\ \A r \in Registers :
                    isUsed(regs'[obj'[x].regs], r)
                        <=> (isUsed(regsOf(x), r) \/ isUsed(regsOf(y), r))
             /\ usedRegs(regs'[obj'[x].regs])
                    = usedRegs(regsOf(x)) \cup usedRegs(regsOf(y))]_vars

\* C2 witness: a.merge(b) was called where b has exchanged banks and a mark in
\* B', and IXL is used in a alone: a then uses both banks and IXL.
C2_Witness ==
    /\ last.op = "merge" /\ last.x = "a" /\ last.y = "b"
    /\ regsOf("b")[IXL] = IXL
    /\ regsOf("b")[B] = B2
    /\ regsOf("b")[B2] = USED
    /\ regsOf("a")[IXL] = USED
    /\ usedRegs(regsOf("a")) = {B, C, D, E, H, L, B2, C2, D2, E2, H2, L2, IXL}

\* C3 (as claimed): on an instance on which only exxAF() and exx() were called
\* since its construction, usedRegs() is empty and isUsed(r) is false for
\* every register.
C3_ExchangeUsesNothing ==
    \A x \in Objs :
        path[x] \in {"new", "exchange"}
        => /\ usedRegs(regsOf(x)) = {}
           /\ \A r \in Registers : ~isUsed(regsOf(x), r)

\* C4 (as claimed): after addAttributeAt(address, length, attr), the attribute
\* of each address (address+i) mod 65536, 0 <= i < length, contains attr.
C4_TagWraps ==
    last.op = "addAttributeAt"
    => LET address == last.args[1]
           length == last.args[2]
           attr == last.args[3]
       IN  \A i \in 0 .. (length - 1) :
               bitsOf(attr) \subseteq
                   bitsOf(getAttributeAt(memoryAttr, (address + i) % MAX_MEM_SIZE))

\* C5 (as claimed): the target getOpcodeAt resolves for a relative operand
\* lies in 0..65535.
C5_RelativeTargetInRing ==
    /\ last.op = "getOpcodeAt"
    /\ last.result.valueType \in {"CODE_RELATIVE_LBL", "CODE_RELATIVE_LOOP"}
    => last.result.value \in 0 .. (MAX_MEM_SIZE - 1)

\* C6: clone() returns an instance whose slots, inputRegs, usedAddresses and
\* stack equal the original's by value, and a call on one instance changes no
\* field of another: not of its clone, not of the instance it was cloned from.
C6_CloneIndependent ==
    [][/\ \A x \in Objs, n \in Objs :
             last'.op = "clone" /\ last'.x = x /\ last'.y = n
             => fieldsAfter(n) = fieldsOf(x) /\ fieldsAfter(x) = fieldsOf(x)
       /\ \A x \in Objs, n \in Objs :
             /\ x # n
             /\ clonedFrom'[n] = x \/ clonedFrom'[x] = n
             /\ last'.op # "clone"
             /\ last'.x = n
             => /\ fieldsAfter(x) = fieldsOf(x)
                /\ usedRegs(regs'[obj'[x].regs]) = usedRegs(regsOf(x))]_vars

\* C6 witness: b is a clone of a made when B was an input register of a, and
\* a push on the stack of b has left the stack of a empty.
C6_Witness ==
    /\ clonedFrom["b"] = "a"
    /\ last.op = "pushStack" /\ last.x = "b"
    /\ stackOf("b") = <<4096>>
    /\ stackOf("a") = << >>
    /\ inputRegsOf("a") = {B}
    /\ inputRegsOf("b") = {B}
    /\ budget.left = MaxCalls - 3

\* C7: from a fresh instance, after any sequence of reads and writes made by
\* the check-then-mark protocol, inputRegs is the set of registers whose first
\* access was a read and usedRegs() is the set of the registers accessed.
C7_InputsAreFirstReads ==
    \A x \in Objs :
        path[x] \in {"new", "access"}
        => /\ inputRegsOf(x) = firstRead[x]
           /\ usedRegs(regsOf(x)) = accessed[x]

\* C7 witness: B was read, then C was written: inputRegs = {B} and
\* usedRegs() = {B, C}.
C7_Witness ==
    /\ last.op = "use" /\ last.x = "a"
    /\ path["a"] = "access"
    /\ firstRead["a"] = {B}
    /\ accessed["a"] = {B, C}
    /\ inputRegsOf("a") = {B}
    /\ usedRegs(regsOf("a")) = {B, C}

\* C8: on every reachable state, exx() called twice restores the slot of every
\* register, and so does exxAF() called twice.
C8_ExchangeTwiceRestores ==
    \A x \in Objs :
        /\ exx(exx(regsOf(x))) = regsOf(x)
        /\ exxAF(exxAF(regsOf(x))) = regsOf(x)

\* C8 witness: exx() has moved a mark of B to B', and B holds the slot of B'.
C8_Witness ==
    /\ last.op = "exx" /\ last.x = "a"
    /\ regsOf("a")[B2] = USED
    /\ regsOf("a")[B] = B2
    /\ exx(regsOf("a"))[B] = USED

\* C9: over setMemory and addAttributeAt, every bit set in the attribute of an
\* address in 0..65535 stays set, and addAttributeAt adds the bits of attr to
\* those set before at its first address: DATA, then CODE, gives DATA | CODE.
C9_AttributesAccumulate ==
    [][/\ \A a \in (DOMAIN memoryAttr \cup DOMAIN memoryAttr') \cap (0 .. (MAX_MEM_SIZE - 1)) :
             bitsOf(getAttributeAt(memoryAttr, a)) \subseteq bitsOf(getAttributeAt(memoryAttr', a))
       /\ last'.op = "addAttributeAt" /\ last'.args[2] >= 1
          => bitsOf(getAttributeAt(memoryAttr', last'.args[1]))
                = bitsOf(getAttributeAt(memoryAttr, last'.args[1])) \cup bitsOf(last'.args[3])
       /\ /\ last'.op = "addAttributeAt" /\ last'.args[2] >= 1 /\ last'.args[3] = CODE
          /\ getAttributeAt(memoryAttr, last'.args[1]) = DATA
          => getAttributeAt(memoryAttr', last'.args[1]) = DATA + CODE]_vars

\* C9 witness: an address tagged DATA was tagged CODE and holds DATA | CODE.
C9_Witness ==
    /\ last.op = "addAttributeAt"
    /\ last.args = <<4096, 1, CODE>>
    /\ getAttributeAt(memoryAttr, 4096) = DATA + CODE

\* C10: getWordValueAt(a) = getValueAt(a) + 256 * getValueAt(a+1), the byte
\* addresses taken modulo 65536: at 65535 the high byte is the byte at 0.
C10_WordIsTwoBytes ==
    last.op = "getWordValueAt"
    => LET a == last.args[1]
       IN  /\ last.result = getValueAt(memory, a)
                              + 256 * getValueAt(memory, (a + 1) % MAX_MEM_SIZE)
           /\ a = 65535 => last.result = memoryAt(memory, 65535) + 256 * memoryAt(memory, 0)

\* C10 witness: the word at 65535 was read with a non-zero byte at address 0.
C10_Witness ==
    /\ last.op = "getWordValueAt"
    /\ last.args = <<65535>>
    /\ memoryAt(memory, 0) = 128
    /\ memoryAt(memory, 65535) = 24
    /\ last.result = 24 + 256 * 128

\* C11: for an opcode at adr with a relative operand and following byte b,
\* getOpcodeAt(adr) gives adr + 2 + s, s = b if b < 128 and b - 256 otherwise.
C11_RelativeTarget ==
    /\ last.op = "getOpcodeAt"
    /\ last.result.valueType \in {"CODE_RELATIVE_LBL", "CODE_RELATIVE_LOOP"}
    => LET adr == last.args[1]
           b == memoryAt(memory, (adr + 1) % MAX_MEM_SIZE)
           s == IF b < 128 THEN b ELSE b - 256
       IN  last.result.value = adr + 2 + s

\* C11 witness: the opcode at 0x1000 is a relative jump followed by 0xFE, and
\* getOpcodeAt(0x1000) gave 0x1000.
C11_Witness ==
    /\ last.op = "getOpcodeAt"
    /\ last.args = <<4096>>
    /\ memoryAt(memory, 4096) = 24
    /\ memoryAt(memory, 4097) = 254
    /\ last.result = [valueType |-> "CODE_RELATIVE_LBL", value |-> 4096]

\* C12: for any two reachable instances a and b, usedRegs() of a after
\* a.merge(b) equals usedRegs() of b after b.merge(a); a.merge(a), and a merge
\* with an instance whose slots equal those of a, leave every slot of a unchanged.
C12_MergeCommutesIdempotent ==
    \A x \in Objs, y \in Objs :
        LET tx == obj[x].regs
            ty == obj[y].regs
        IN  /\ usedRegs(merge(regs, tx, ty)[tx]) = usedRegs(merge(regs, ty, tx)[ty])
            /\ merge(regs, tx, tx) = regs
            /\ regs[tx] = regs[ty] => merge(regs, tx, ty) = regs

\* C12 witness: a.merge(a) was called on an instance that uses B, while b uses
\* IXL and not B: the two used sets differ and neither contains the other.
C12_Witness ==
    /\ last.op = "merge" /\ last.x = "a" /\ last.y = "a"
    /\ usedRegs(regsOf("a")) = {B}
    /\ usedRegs(regsOf("b")) = {IXL}

\* C13: a.merge(b) leaves inputRegs, usedAddresses and stack of a unchanged and
\* leaves every field of b unchanged: only slots of a may change.
C13_MergeFrame ==
    [][\A x \in Objs, y \in Objs :
          last'.op = "merge" /\ last'.x = x /\ last'.y = y
          => /\ inputRegs'[obj'[x].inputRegs] = inputRegsOf(x)
             /\ usedAddresses'[obj'[x].usedAddresses] = usedAddressesOf(x)
             /\ stack'[obj'[x].stack] = stackOf(x)
             /\ fieldsAfter(y) = fieldsOf(y)
             /\ \A z \in Objs \ {x} : fieldsAfter(z) = fieldsOf(z)]_vars

\* C13 witness: after a read of B on b and a push on the stack of a,
\* a.merge(b) has marked B in a; a still has no input register and its stack.
C13_Witness ==
    /\ last.op = "merge" /\ last.x = "a" /\ last.y = "b"
    /\ budget.left = MaxCalls - 3
    /\ inputRegsOf("b") = {B}
    /\ inputRegsOf("a") = {}
    /\ stackOf("a") = <<4096>>
    /\ stackOf("b") = << >>
    /\ regsOf("a")[B] = USED

\* C14: getOpcodeAt(address) does not mutate the Memory: the byte array and
\* the attribute array are the same before and after the call, for every
\* address and operand kind; likewise getValueAt, getWordValueAt and
\* getAttributeAt.
C14_ReadsLeaveMemory ==
    [][last'.op \in {"getOpcodeAt", "getValueAt", "getWordValueAt", "getAttributeAt"}
          => /\ memory' = memory
             /\ memoryAttr' = memoryAttr
             /\ \A a \in AddrInputs :
                    /\ getValueAt(memory', a) = getValueAt(memory, a)
                    /\ getAttributeAt(memoryAttr', a) = getAttributeAt(memoryAttr, a)]_vars

\* C14 witness: getOpcodeAt(0xFFFE) has decoded a jump whose word operand lies
\* across the top of the address space, at 0xFFFF and 0x0000.
C14_Witness ==
    /\ last.op = "getOpcodeAt"
    /\ last.args = <<65534>>
    /\ last.result = [valueType |-> "CODE_LBL", value |-> 128 + 256 * 18]
    /\ memoryAt(memory, 65534) = 195
    /\ getAttributeAt(memoryAttr, 0) = ASSIGNED

\* C15: for a NUMBER_BYTE operand with following byte b, getOpcodeAt gives b
\* when b < 128 and b - 256 otherwise (0x80 gives -128, 0x7F gives 127, 0x00
\* gives 0), a value in -128..127; for a PORT_LBL operand it gives b, in 0..255.
C15_ByteOperands ==
    last.op = "getOpcodeAt"
    => LET b == memoryAt(memory, (last.args[1] + 1) % MAX_MEM_SIZE)
           v == last.result.value
       IN  /\ last.result.valueType = "NUMBER_BYTE"
              => /\ v = (IF b < 128 THEN b ELSE b - 256)
                 /\ v \in -128 .. 127
                 /\ b = 128 => v = -128
                 /\ b = 127 => v = 127
                 /\ b = 0 => v = 0
           /\ last.result.valueType = "PORT_LBL"
              => /\ v = b
                 /\ v \in 0 .. 255

\* C15 witness: a NUMBER_BYTE opcode followed by 0x80 was decoded to -128.
C15_Witness ==
    /\ last.op = "getOpcodeAt"
    /\ last.args = <<4096>>
    /\ memoryAt(memory, 4096) = 62
    /\ memoryAt(memory, 4097) = 128
    /\ last.result = [valueType |-> "NUMBER_BYTE", value |-> -128]

\* C16: setMemory(origin, bytes) stores bytes[i] at (origin+i) mod 65536, the
\* last write to an address winning, ORs ASSIGNED into the attribute of exactly
\* those addresses and leaves the byte and attribute of every other index
\* unchanged; getValueAt of a written address returns the last byte written.
C16_SetMemoryStores ==
    [][last'.op = "setMemory"
       => LET origin == last'.args[1]
              bytes == last'.args[2]
              touched == {(origin + i) % MAX_MEM_SIZE : i \in 0 .. (Len(bytes) - 1)}
              lastWrite(a) == CHOOSE i \in 0 .. (Len(bytes) - 1) :
                                  /\ (origin + i) % MAX_MEM_SIZE = a
                                  /\ \A j \in (i + 1) .. (Len(bytes) - 1) :
                                          (origin + j) % MAX_MEM_SIZE # a
              indexes == DOMAIN memory \cup DOMAIN memory' \cup DOMAIN memoryAttr
                            \cup DOMAIN memoryAttr' \cup AddrInputs \cup touched
          IN  /\ \A a \in touched :
                    /\ memoryAt(memory', a) = bytes[lastWrite(a) + 1]
                    /\ getValueAt(memory', a) = bytes[lastWrite(a) + 1]
                    /\ bitsOf(memoryAttrAt(memoryAttr', a))
                          = bitsOf(memoryAttrAt(memoryAttr, a)) \cup bitsOf(ASSIGNED)
              /\ \A a \in indexes \ touched :
                    /\ memoryAt(memory', a) = memoryAt(memory, a)
                    /\ memoryAttrAt(memoryAttr', a) = memoryAttrAt(memoryAttr, a)]_vars

\* C16 witness: two bytes loaded at 65535 over an earlier byte and a DATA tag:
\* the second byte is at 0 and the first replaced the byte at 65535.
C16_Witness ==
    /\ last.op = "setMemory"
    /\ last.args = <<65535, <<24, 254>> >>
    /\ budget.left = MemCalls - 3
    /\ getValueAt(memory, 65535) = 24
    /\ getValueAt(memory, 0) = 254
    /\ getAttributeAt(memoryAttr, 65535) = DATA + ASSIGNED
    /\ getAttributeAt(memoryAttr, 0) = ASSIGNED
    /\ getAttributeAt(memoryAttr, 4096) = UNUSED

\* C18: exx() exchanges the slot of each of B..L with the slot of its alternate
\* and exxAF() the slots of A with A' and F with F'; either leaves every other
\* slot, inputRegs, usedAddresses and stack of the instance, and every other
\* instance, unchanged.
C18_ExchangeFrame ==
    [][\A x \in Objs :
          last'.op \in {"exx", "exxAF"} /\ last'.x = x
          => LET before == regsOf(x)
                 after == regs'[obj'[x].regs]
                 swapped == IF last'.op = "exx" THEN B .. L ELSE {A, F}
                 diff == B2 - B
             IN  /\ \A r \in swapped :
                       /\ after[r] = before[r + diff]
                       /\ after[r + diff] = before[r]
                 /\ \A r \in Registers \ (swapped \cup {r + diff : r \in swapped}) :
                       after[r] = before[r]
                 /\ DOMAIN after = DOMAIN before
                 /\ inputRegs'[obj'[x].inputRegs] = inputRegsOf(x)
                 /\ usedAddresses'[obj'[x].usedAddresses] = usedAddressesOf(x)
                 /\ stack'[obj'[x].stack] = stackOf(x)
                 /\ \A z \in Objs \ {x} : fieldsAfter(z) = fieldsOf(z)]_vars

\* C18 witness: exx() on an instance that had read B, used IXL and pushed a
\* stack entry: the mark of B is in B', that of IXL, the inputs and the stack
\* are where they were.
C18_Witness ==
    /\ last.op = "exx"
    /\ last.x = "a"
    /\ regsOf("a")[B2] = USED
    /\ regsOf("a")[B] = B2
    /\ regsOf("a")[IXL] = USED
    /\ inputRegsOf("a") = {B}
    /\ stackOf("a") = <<4096>>

\* C17 (as claimed): over use, exxAF, exx, clone and merge from fresh
\* instances, isUsed(r) and usedRegs() equal the view of the reference that
\* keeps one Fresh | Used tag per register.
C17_SentinelsMatchTags ==
    \A x \in DOMAIN tags :
        /\ \A r \in Registers : isUsed(regsOf(x), r) <=> tags[x][r] = "Used"
        /\ usedRegs(regsOf(x)) = usedTags(tags[x])

\* C19 (as claimed): when registers enter inputRegs only by a read that checks
\* isUsed(r) and then calls use(r), then over reads, writes, exxAF, exx, clone
\* and merge every register in inputRegs is reported used: inputRegs is a
\* subset of usedRegs().
C19_InputsAreUsed ==
    \A x \in Objs : inputRegsOf(x) \subseteq usedRegs(regsOf(x))

====
